---- MODULE Spec2Model ----
(***************************************************************************)
(* A model of glue/ligolw/ligolw.py: the Element tree of a LIGO Light      *)
(* Weight XML document, its mutation methods (appendChild, insertBefore,   *)
(* removeChild, replaceChild) and the SAX content handler that grows a     *)
(* Document from startElement / endElement / characters events, the        *)
(* constructors' handling of the attribute mapping, and write.             *)
(*                                                                         *)
(* Element objects are numbered from 1.  A Python exception is the         *)
(* value of last.raised; the statements a method executed before it raised *)
(* have taken effect in the successor state, as in the interpreter.        *)
(***************************************************************************)
EXTENDS Integers, Sequences, FiniteSets, TLC

\* Bounds of the model.
MaxNodes == 3          \* Element objects that exist in one behaviour
MaxData == 2           \* characters kept in the pcdata of all elements together
MaxMaps == 1           \* attribute mappings a program makes for its constructor calls
MaxTree == 4           \* elements a program builds: a document it writes, or one Table or Array with its children

Nodes == 1..MaxNodes
None == 0              \* Python's None, where an object is expected
NotConstructed == "-"  \* tagName of a pool slot no constructor has filled yet
NoError == "none"      \* the call returned normally

VARIABLES
    tagName,      \* tagName[n]: the class attribute tagName of n's class
    parentNode,   \* parentNode[n]: Element.parentNode
    childNodes,   \* childNodes[n]: Element.childNodes, a list of nodes
    pcdata,       \* pcdata[n]: <<>> for None, <<s>> for the string s
    document,     \* LIGOLWContentHandler.document
    current,      \* LIGOLWContentHandler.current
    last,         \* the last call: method, exception raised, the tag name its
                  \* message names, value returned
    open,         \* the elements the event stream has started and not yet ended
    wellNested,   \* the event stream so far is well nested and follows the grammar
    attributes,   \* attributes[n]: Element.attributes, an AttributesImpl object
    attrs,        \* attrs[o]: the dictionary _attrs of AttributesImpl object o
    file,         \* the lines write has printed to the file
    parsed        \* how many events of the file the parser has delivered

vars == <<tagName, parentNode, childNodes, pcdata, document, current, last,
          open, wellNested, attributes, attrs, file, parsed>>

----------------------------------------------------------------------------
\* The element classes: tagName and validchildren of each.

\* The class tagName attributes, in a fixed order.
KindSeq ==
    << "Document", "LIGO_LW", "Comment", "Param", "Table", "Column", "Array",
       "Dim", "Stream", "IGWDFrame", "Detector", "AdcData", "AdcInterval",
       "Time" >>

Kinds == {KindSeq[i] : i \in 1..Len(KindSeq)}

KindIndex(k) == CHOOSE i \in 1..Len(KindSeq) : KindSeq[i] = k

\* validchildren of the class whose tagName is k; Element's default is [].
validchildren(k) ==
    CASE k = "LIGO_LW" ->
           {"LIGO_LW", "Comment", "Param", "Table", "Array", "Stream",
            "IGWDFrame", "AdcData", "AdcInterval", "Time", "Detector"}
      [] k = "Param" -> {"Comment"}
      [] k = "Table" -> {"Comment", "Column", "Stream"}
      [] k = "Array" -> {"Dim", "Stream"}
      [] k = "IGWDFrame" ->
           {"Comment", "Param", "Time", "Detector", "AdcData", "LIGO_LW",
            "Stream", "Array", "IGWDFrame"}
      [] k = "Detector" -> {"Comment", "Param", "LIGO_LW"}
      [] k = "AdcData" ->
           {"AdcData", "Comment", "Param", "Time", "LIGO_LW", "Array"}
      [] k = "AdcInterval" -> {"AdcData", "Comment", "Time"}
      [] k = "Document" -> {"LIGO_LW"}
      [] OTHER -> {}

\* validattributes of the class whose tagName is k; Element's default is [].
validattributes(k) ==
    CASE k = "Param" -> {"Name", "Type", "Start", "Scale", "Unit", "DataUnit"}
      [] k = "Table" -> {"Name", "Type"}
      [] k = "Column" -> {"Name", "Type", "Unit"}
      [] k = "Array" -> {"Name", "Type", "Unit"}
      [] k = "Dim" -> {"Name", "Unit", "Start", "Scale"}
      [] k = "Stream" -> {"Name", "Type", "Delimiter", "Encoding", "Content"}
      [] k = "IGWDFrame" -> {"Name"}
      [] k = "Detector" -> {"Name"}
      [] k = "AdcData" -> {"Name"}
      [] k = "AdcInterval" -> {"Name", "StartTime", "DeltaT"}
      [] k = "Time" -> {"Name", "Type"}
      [] OTHER -> {}

----------------------------------------------------------------------------
\* Lists.

\* list.index(x): the first position of x, 0 when x is not in the list.
IndexOf(s, x) ==
    IF \E i \in 1..Len(s) : s[i] = x
    THEN CHOOSE i \in 1..Len(s) : s[i] = x /\ \A j \in 1..(i - 1) : s[j] # x
    ELSE 0

\* list.insert(i - 1, x): x takes position i, the rest moves up.
InsertAt(s, i, x) == SubSeq(s, 1, i - 1) \o <<x>> \o SubSeq(s, i, Len(s))

\* The list without its position i.
RemoveAt(s, i) == SubSeq(s, 1, i - 1) \o SubSeq(s, i + 1, Len(s))

\* The tag names of a list of nodes, tn[n] being the tag name of node n.
TagsOf(tn, s) == [i \in 1..Len(s) |-> tn[s[i]]]

\* The tag names of a list of nodes in the current state.
KindsOf(s) == TagsOf(tagName, s)

----------------------------------------------------------------------------
\* _verifyChildren, by class.  Each returns the exception it raises.

\* The loop of Table._verifyChildren from position i of the children's tag
\* names on, with the three counters.
RECURSIVE TableScan(_, _, _, _, _)
TableScan(kinds, i, ncomment, ncolumn, nstream) ==
    IF i > Len(kinds) THEN NoError
    ELSE IF kinds[i] = "Comment"
         THEN IF ncomment > 0 THEN "ElementError"
              ELSE IF ncolumn > 0 \/ nstream > 0 THEN "ElementError"
              ELSE TableScan(kinds, i + 1, ncomment + 1, ncolumn, nstream)
    ELSE IF kinds[i] = "Column"
         THEN IF nstream > 0 THEN "ElementError"
              ELSE TableScan(kinds, i + 1, ncomment, ncolumn + 1, nstream)
    ELSE IF nstream > 0 THEN "ElementError"
         ELSE TableScan(kinds, i + 1, ncomment, ncolumn, nstream + 1)

Table_verifyChildren(kinds) == TableScan(kinds, 1, 0, 0, 0)

\* Array._verifyChildren is declared (self, child, i); every caller passes
\* the index alone, so the call raises TypeError before the body runs.
Array_verifyChildren(kinds) == "TypeError"

\* Element._verifyChildren: pass.
Element_verifyChildren(kinds) == NoError

\* self._verifyChildren(i) on the child list cn of a node of class k.
verifyChildren(k, kinds) ==
    CASE k = "Table" -> Table_verifyChildren(kinds)
      [] k = "Array" -> Array_verifyChildren(kinds)
      [] OTHER -> Element_verifyChildren(kinds)

----------------------------------------------------------------------------
\* The constructors and the attribute mapping.  attrs is an AttributesImpl
\* object; the constructors read and write its dictionary _attrs and the
\* element keeps a reference to the object itself.

\* Each __init__ evaluates its default argument AttributesImpl({}) once, when
\* the class is defined: one object for Element.__init__, one for
\* Stream.__init__, one for Time.__init__, bound to attrs in every call that
\* passes none.  Other AttributesImpl objects are numbered from 1.
ElementAttrs == -1
StreamAttrs == -2
TimeAttrs == -3
DefaultAttrs == {ElementAttrs, StreamAttrs, TimeAttrs}

\* The object attrs is bound to when the constructor of class k gets no
\* argument.
DefaultOf(k) ==
    CASE k = "Stream" -> StreamAttrs
      [] k = "Time" -> TimeAttrs
      [] OTHER -> ElementAttrs

\* The dictionary {}.
EmptyMap == [key \in {} |-> ""]

\* d after d[key] = value.
SetItem(d, key, value) ==
    [k \in DOMAIN d \cup {key} |-> IF k = key THEN value ELSE d[k]]

\* What a call leaves of an attrs object: its dictionary and the exception
\* raised (a constructor that raised has made no element).
LeftAttrs(d, raised) == [attrs |-> d, raised |-> raised]

\* Element.__init__ in class k on an attrs object whose dictionary is d.
Element_init(k, d) ==
    IF \E key \in DOMAIN d : key \notin validattributes(k)
    THEN LeftAttrs(d, "ElementError")
    ELSE LeftAttrs(d, NoError)

\* Stream.__init__ that fills in no Delimiter.
Stream_init_TypeOnly(d) ==
    LET d1 == IF "Type" \in DOMAIN d THEN d ELSE SetItem(d, "Type", "Local")
    IN  IF d1["Type"] \notin {"Remote", "Local"}
        THEN LeftAttrs(d1, "ElementError")
        ELSE Element_init("Stream", d1)

\* Stream.__init__.
Stream_init(d) ==
    LET d1 == IF "Type" \in DOMAIN d THEN d ELSE SetItem(d, "Type", "Local")
        d2 == IF "Delimiter" \in DOMAIN d1 THEN d1
              ELSE SetItem(d1, "Delimiter", ",")
    IN  IF d2["Type"] \notin {"Remote", "Local"}
        THEN LeftAttrs(d2, "ElementError")
        ELSE Element_init("Stream", d2)

\* Time.__init__.
Time_init(d) ==
    LET d1 == IF "Type" \in DOMAIN d THEN d ELSE SetItem(d, "Type", "ISO-8601")
    IN  IF d1["Type"] \notin {"GPS", "Unix", "ISO-8601"}
        THEN LeftAttrs(d1, "ElementError")
        ELSE Element_init("Time", d1)

\* The constructor of the class whose tagName is k.
construct(k, d) ==
    CASE k = "Stream" -> Stream_init(d)
      [] k = "Time" -> Time_init(d)
      [] OTHER -> Element_init(k, d)

\* Element.setAttribute on an element whose attributes object has dictionary
\* d: str(value), then the item assignment self.attributes[attrname] = ...;
\* AttributesImpl defines __getitem__ and no __setitem__, so the assignment
\* raises AttributeError and stores nothing.
setAttribute(d, attrname, value) == LeftAttrs(d, "AttributeError")

\* The default objects after the elements with tag names tn were constructed
\* without argument.
DefaultsAfter(tn) ==
    [o \in DefaultAttrs |->
        IF \E n \in DOMAIN tn : tn[n] # NotConstructed /\ DefaultOf(tn[n]) = o
        THEN LET n == CHOOSE m \in DOMAIN tn :
                          tn[m] # NotConstructed /\ DefaultOf(tn[m]) = o
             IN  construct(tn[n], EmptyMap).attrs
        ELSE EmptyMap]

----------------------------------------------------------------------------
\* The mutation methods as functions of the tree (tn: tag names, cn: child
\* lists, pn: parent links): the tree they leave, the exception raised and the
\* value returned.

Outcome(cn, pn, raised, returned) ==
    [childNodes |-> cn, parentNode |-> pn, raised |-> raised,
     returned |-> IF raised = NoError THEN returned ELSE None]

appendChild(tn, cn, pn, self, child) ==
    LET cn1 == [cn EXCEPT ![self] = Append(@, child)]
        pn1 == [pn EXCEPT ![child] = self]
    IN  Outcome(cn1, pn1, verifyChildren(tn[self], TagsOf(tn, cn1[self])), child)

\* insertBefore that appends newchild when refchild is not a child.
insertBefore_AppendWhenAbsent(tn, cn, pn, self, newchild, refchild) ==
    LET i == IndexOf(cn[self], refchild)
        at == IF i = 0 THEN Len(cn[self]) + 1 ELSE i
        cn1 == [cn EXCEPT ![self] = InsertAt(@, at, newchild)]
        pn1 == [pn EXCEPT ![newchild] = self]
    IN  Outcome(cn1, pn1, verifyChildren(tn[self], TagsOf(tn, cn1[self])), newchild)

insertBefore(tn, cn, pn, self, newchild, refchild) ==
    LET i == IndexOf(cn[self], refchild)
        cn1 == [cn EXCEPT ![self] = InsertAt(@, i, newchild)]
        pn1 == [pn EXCEPT ![newchild] = self]
    IN  IF i = 0
        THEN Outcome(cn, pn, "ValueError", None)
        ELSE Outcome(cn1, pn1, verifyChildren(tn[self], TagsOf(tn, cn1[self])),
                     newchild)

\* removeChild that fills the place of the child with the last of the list.
removeChild_MoveLast(cn, pn, self, child) ==
    LET i == IndexOf(cn[self], child)
        n == Len(cn[self])
        moved == IF i = n THEN RemoveAt(cn[self], i)
                 ELSE RemoveAt([cn[self] EXCEPT ![i] = cn[self][n]], n)
    IN  IF i = 0
        THEN Outcome(cn, pn, "ValueError", None)
        ELSE Outcome([cn EXCEPT ![self] = moved],
                     [pn EXCEPT ![child] = None], NoError, child)

removeChild(cn, pn, self, child) ==
    LET i == IndexOf(cn[self], child)
    IN  IF i = 0
        THEN Outcome(cn, pn, "ValueError", None)
        ELSE Outcome([cn EXCEPT ![self] = RemoveAt(@, i)],
                     [pn EXCEPT ![child] = None], NoError, child)

\* The first statement reads refchild, a name bound nowhere: NameError.
replaceChild(cn, pn, self, newchild, oldchild) ==
    Outcome(cn, pn, "NameError", None)

\* Element.unlink on self, fuel calls deep at most.  The child lists are
\* emptied when the loop over them returns; where a child list leads back to
\* an element whose unlink is running, the calls never return and the
\* interpreter raises RuntimeError (maximum recursion depth exceeded): more
\* calls in a row than there are elements is that case.
RECURSIVE unlink(_, _, _, _)
RECURSIVE unlinkChildNodes(_, _, _, _, _)

\* The loop "for child in self.childNodes" of unlink from child i on.
unlinkChildNodes(cn, pn, self, i, fuel) ==
    IF i > Len(cn[self]) THEN Outcome(cn, pn, NoError, None)
    ELSE LET r == unlink(cn, pn, cn[self][i], fuel)
         IN  IF r.raised # NoError THEN r
             ELSE unlinkChildNodes(r.childNodes, r.parentNode, self, i + 1, fuel)

unlink(cn, pn, self, fuel) ==
    IF fuel = 0 THEN Outcome(cn, pn, "RuntimeError", None)
    ELSE LET r == unlinkChildNodes(cn, [pn EXCEPT ![self] = None], self, 1,
                                   fuel - 1)
         IN  IF r.raised # NoError THEN r
             ELSE Outcome([r.childNodes EXCEPT ![self] = <<>>], r.parentNode,
                          NoError, None)

----------------------------------------------------------------------------
\* The calls a program makes on the tree.

Called(op, r) ==
    /\ childNodes' = r.childNodes
    /\ parentNode' = r.parentNode
    /\ last' = [op |-> op, raised |-> r.raised, tag |-> "", returned |-> r.returned]
    /\ UNCHANGED <<tagName, pcdata, document, current, open, wellNested,
                   attributes, attrs, file, parsed>>

AppendChild(self, child) ==
    Called("appendChild", appendChild(tagName, childNodes, parentNode, self, child))

InsertBefore(self, newchild, refchild) ==
    Called("insertBefore",
           insertBefore(tagName, childNodes, parentNode, self, newchild, refchild))

RemoveChild(self, child) ==
    Called("removeChild", removeChild(childNodes, parentNode, self, child))

ReplaceChild(self, newchild, oldchild) ==
    Called("replaceChild",
           replaceChild(childNodes, parentNode, self, newchild, oldchild))

Unlink(self) ==
    Called("unlink", unlink(childNodes, parentNode, self, MaxNodes))

\* a is n or an ancestor of n, following at most fuel parent links.
RECURSIVE IsAncestorOrSelf(_, _, _)
IsAncestorOrSelf(a, n, fuel) ==
    \/ a = n
    \/ /\ fuel > 0
       /\ parentNode[n] # None
       /\ IsAncestorOrSelf(a, parentNode[n], fuel - 1)

\* The caller hands over a node that is in no tree position yet: it has no
\* parent and is not the receiver or one of the receiver's ancestors.
Detached(self, child) ==
    /\ parentNode[child] = None
    /\ ~IsAncestorOrSelf(child, self, MaxNodes)

NoCall == [op |-> "", raised |-> NoError, tag |-> "", returned |-> None]

\* Nothing has been written.
NoFile == <<>>

\* The tag names the ordering checks tell apart, and a parent without a check.
OrderKinds == {"LIGO_LW", "Comment", "Table", "Column", "Array", "Dim", "Stream"}

\* Nodes are interchangeable, so the casts list their tag names in KindSeq order.
Casts(kinds) ==
    {f \in [Nodes -> kinds] :
        \A i, j \in Nodes : i < j => KindIndex(f[i]) <= KindIndex(f[j])}

\* Every node constructed, none attached.
InitTree(kinds) ==
    /\ tagName \in Casts(kinds)
    /\ parentNode = [n \in Nodes |-> None]
    /\ childNodes = [n \in Nodes |-> <<>>]
    /\ pcdata = [n \in Nodes |-> <<>>]
    /\ document = None
    /\ current = None
    /\ last = NoCall
    /\ open = <<>>
    /\ wellNested = TRUE
    /\ attributes = [n \in Nodes |-> DefaultOf(tagName[n])]
    /\ attrs = DefaultsAfter(tagName)
    /\ file = NoFile
    /\ parsed = 0

Init == InitTree(OrderKinds)

InitKinds == InitTree(Kinds)

Next ==
    \/ \E self, child \in Nodes :
          Detached(self, child) /\ AppendChild(self, child)
    \/ \E self, newchild, refchild \in Nodes :
          Detached(self, newchild) /\ InsertBefore(self, newchild, refchild)
    \/ \E self, child \in Nodes : RemoveChild(self, child)
    \/ \E self, newchild, oldchild \in Nodes :
          Detached(self, newchild) /\ ReplaceChild(self, newchild, oldchild)

\* The mutation methods on nodes of the kinds the ordering checks tell apart.
Spec == Init /\ [][Next]_vars

\* The mutation methods on nodes of every kind.
SpecKinds == InitKinds /\ [][Next]_vars

\* The classes of a program that calls the methods with any elements.
AnyCallKinds == {"LIGO_LW", "Table"}

InitAnyCall == InitTree(AnyCallKinds)

\* The number of entries of the child lists of the elements 1..n.
RECURSIVE Entries(_)
Entries(n) == IF n = 0 THEN 0 ELSE Len(childNodes[n]) + Entries(n - 1)

\* The methods called with any elements as arguments, attached or not, the
\* receiver itself included; the child lists hold MaxNodes entries in all.
NextAnyCall ==
    \/ \E self, child \in Nodes :
          Entries(MaxNodes) < MaxNodes /\ AppendChild(self, child)
    \/ \E self, newchild, refchild \in Nodes :
          Entries(MaxNodes) < MaxNodes /\ InsertBefore(self, newchild, refchild)
    \/ \E self, child \in Nodes : RemoveChild(self, child)
    \/ \E self, newchild, oldchild \in Nodes : ReplaceChild(self, newchild, oldchild)
    \/ \E self \in Nodes : Unlink(self)

SpecAnyCall == InitAnyCall /\ [][NextAnyCall]_vars

----------------------------------------------------------------------------
\* What the grammar of the document asks of a child list, as lists of tag
\* names: the terms in which the properties below are stated.

\* A Table's children: one Comment at most and only in first place, every
\* Column before any Stream, one Stream at most and only in last place.
TableOrdered(kinds) ==
    /\ \A i \in 1..Len(kinds) : kinds[i] = "Comment" => i = 1
    /\ \A i, j \in 1..Len(kinds) :
          (kinds[i] = "Stream" /\ kinds[j] = "Column") => j < i
    /\ \A i \in 1..Len(kinds) : kinds[i] = "Stream" => i = Len(kinds)

\* An Array's children: every Dim before the Stream, one Stream at most.
ArrayOrdered(kinds) ==
    /\ \A i, j \in 1..Len(kinds) :
          (kinds[i] = "Stream" /\ kinds[j] = "Dim") => j < i
    /\ \A i, j \in 1..Len(kinds) :
          (kinds[i] = "Stream" /\ kinds[j] = "Stream") => i = j

\* The child list of a node of kind k is made of permitted kinds.
Permitted(k, kinds) == \A i \in 1..Len(kinds) : kinds[i] \in validchildren(k)

\* The child list of a node of kind k is in the order its kind asks for.
OrderValid(k, kinds) ==
    CASE k = "Table" -> TableOrdered(kinds)
      [] k = "Array" -> ArrayOrdered(kinds)
      [] OTHER -> TRUE

IsChild(self, n) == \E i \in 1..Len(childNodes[self]) : childNodes[self][i] = n

----------------------------------------------------------------------------
\* LIGOLWContentHandler: the SAX events.

\* startElement with a branch for Document as well.
StartElementTags_WithDocument ==
    { "AdcData", "AdcInterval", "Array", "Column", "Comment", "Detector", "Dim",
      "Document", "IGWDFrame", "LIGO_LW", "Param", "Stream", "Table", "Time" }

\* The tag names startElement compares name with.
StartElementTags ==
    { "AdcData", "AdcInterval", "Array", "Column", "Comment", "Detector", "Dim",
      "IGWDFrame", "LIGO_LW", "Param", "Stream", "Table", "Time" }

\* The tag names endElement compares name with.
EndElementTags ==
    { "AdcData", "AdcInterval", "Array", "Column", "Comment", "Detector", "Dim",
      "IGWDFrame", "LIGO_LW", "Param", "Stream", "Table", "Time" }

\* The end* methods the handler class defines, by the name after "end".
EndMethods ==
    { "AdcData", "AdcInterval", "Array", "Column", "Comment", "Detector", "Dim",
      "IGWDFrame", "LIGO_LW", "Params", "Stream", "Table", "Time" }

\* The method endElement calls in the branch of tag name, by the name after
\* "end": self.endParam() in the Param branch.
EndMethodCalled(name) == name

\* The tag names an event may carry: the classes' names, names that differ
\* from one in letter case only, and a name of no class.
EventNames == Kinds \cup {"table", "Bogus"}

\* The strings a characters event may carry, as lists of characters.
Contents == {<<"h">>, <<"i">>}

\* Python's truth value of pcdata: None and "" are false.
Truthy(pc) == pc # <<>> /\ pc[1] # <<>>

\* appendData that keeps the last content only.
appendData_KeepLast(pc, content) == <<content>>

\* Element.appendData on a pcdata value.
appendData(pc, content) ==
    IF Truthy(pc) THEN <<pc[1] \o content>> ELSE <<content>>

\* The number of characters the pcdata values pc keep in the nodes of set S.
RECURSIVE DataKept(_, _)
DataKept(pc, S) ==
    IF S = {} THEN 0
    ELSE LET n == CHOOSE m \in S : TRUE
         IN  (IF pc[n] = <<>> THEN 0 ELSE Len(pc[n][1])) + DataKept(pc, S \ {n})

\* The slot the next constructed Element takes.
FreeSlots == {n \in DOMAIN tagName : tagName[n] = NotConstructed}
NewNode == CHOOSE n \in FreeSlots : \A m \in FreeSlots : n <= m

\* The event stream itself, whatever the handler does with it: the elements
\* it has open (tag name and the tag names of the children started so far),
\* and whether it has been well nested and within the grammar up to here.
\* The stream opens on the document alone; a stream that has left the grammar
\* keeps no open elements.
DocumentOpen == <<[kind |-> "Document", kids |-> <<>>]>>
TopKind == open[Len(open)].kind
TopKids == open[Len(open)].kids

\* A start event of tag name keeps the stream in the grammar: the element is a
\* permitted child of the innermost open element, in an order its kind allows,
\* and the document gets one top-level element only.
StartFollowsGrammar(name) ==
    /\ wellNested
    /\ name \in validchildren(TopKind)
    /\ OrderValid(TopKind, Append(TopKids, name))
    /\ TopKind = "Document" => TopKids = <<>>

StreamStarted(name) ==
    IF StartFollowsGrammar(name)
    THEN /\ wellNested' = TRUE
         /\ open' = Append([open EXCEPT ![Len(open)].kids = Append(@, name)],
                           [kind |-> name, kids |-> <<>>])
    ELSE /\ wellNested' = FALSE
         /\ open' = <<>>

\* An end event is well nested when it names the innermost open element.
StreamEnded(name) ==
    IF wellNested /\ Len(open) > 1 /\ TopKind = name
    THEN /\ wellNested' = TRUE
         /\ open' = SubSeq(open, 1, Len(open) - 1)
    ELSE /\ wellNested' = FALSE
         /\ open' = <<>>

\* What a handler method leaves: the tree, the text, the cursor, the exception
\* raised and, for "unknown element tag %s", the tag the message names.
Left(tn, cn, pn, pc, cur, raised, tag) ==
    [tagName |-> tn, childNodes |-> cn, parentNode |-> pn, pcdata |-> pc,
     current |-> cur, raised |-> raised, tag |-> tag,
     attributes |-> attributes, attrs |-> attrs]

Refused(raised, tag) ==
    Left(tagName, childNodes, parentNode, pcdata, current, raised, tag)

\* LIGOLWContentHandler.startElement(name, attrs), d the dictionary of attrs:
\* the branch of name constructs the child, then
\* self.current.appendChild(child) and self.current = child.  The parser
\* makes the attrs object for this event: the child's number names it.
startElement(name, d) ==
    IF name \notin StartElementTags THEN Refused("ElementError", name)
    ELSE IF construct(name, d).raised # NoError
    THEN Refused(construct(name, d).raised, "")
    ELSE IF current = None THEN Refused("AttributeError", "")
    ELSE LET child == NewNode
             tn == [tagName EXCEPT ![child] = name]
             r == appendChild(tn, childNodes, parentNode, current, child)
         IN  [Left(tn, r.childNodes, r.parentNode, pcdata,
                   IF r.raised = NoError THEN child ELSE current, r.raised, "")
                 EXCEPT !.attributes = [attributes EXCEPT ![child] = child],
                        !.attrs = [attrs EXCEPT ![child] = construct(name, d).attrs]]

\* LIGOLWContentHandler.endElement(name): the branch of name calls the end
\* method, then self.current = self.current.parentNode.
endElement(name) ==
    IF name \notin EndElementTags THEN Refused("ElementError", name)
    ELSE IF EndMethodCalled(name) \notin EndMethods THEN Refused("AttributeError", "")
    ELSE IF current = None THEN Refused("AttributeError", "")
    ELSE Left(tagName, childNodes, parentNode, pcdata, parentNode[current],
              NoError, "")

\* LIGOLWContentHandler.characters(content).
characters(content) ==
    IF current = None THEN Refused("AttributeError", "")
    ELSE IF tagName[current] \in {"Comment", "Stream"}
    THEN Left(tagName, childNodes, parentNode,
              [pcdata EXCEPT ![current] = appendData(@, content)], current,
              NoError, "")
    ELSE Refused(NoError, "")

\* An event reaches the handler.
Handled(op, r) ==
    /\ tagName' = r.tagName
    /\ childNodes' = r.childNodes
    /\ parentNode' = r.parentNode
    /\ pcdata' = r.pcdata
    /\ current' = r.current
    /\ last' = [op |-> op, raised |-> r.raised, tag |-> r.tag, returned |-> None]
    /\ attributes' = r.attributes
    /\ attrs' = r.attrs
    /\ UNCHANGED <<document, file>>

\* A start event without attributes; one that constructs an Element needs a
\* slot for it.
StartElement(name) ==
    /\ (name \in StartElementTags /\ current # None) => FreeSlots # {}
    /\ StreamStarted(name)
    /\ Handled("startElement", startElement(name, EmptyMap))
    /\ UNCHANGED parsed

EndElement(name) ==
    /\ StreamEnded(name)
    /\ Handled("endElement", endElement(name))
    /\ UNCHANGED parsed

\* A characters event; the text it leaves must fit.
Characters(content) ==
    /\ DataKept(characters(content).pcdata, Nodes) <= MaxData
    /\ Handled("characters", characters(content))
    /\ UNCHANGED <<open, wellNested, parsed>>

\* A Document and a handler constructed on it.
InitBuilder ==
    /\ tagName = [n \in Nodes |-> IF n = 1 THEN "Document" ELSE NotConstructed]
    /\ parentNode = [n \in Nodes |-> None]
    /\ childNodes = [n \in Nodes |-> <<>>]
    /\ pcdata = [n \in Nodes |-> <<>>]
    /\ document = 1
    /\ current = 1
    /\ last = NoCall
    /\ open = DocumentOpen
    /\ wellNested = TRUE
    /\ attributes = [n \in Nodes |-> IF n = 1 THEN ElementAttrs ELSE None]
    /\ attrs = [o \in DefaultAttrs \cup Nodes |-> EmptyMap]
    /\ file = NoFile
    /\ parsed = 0

\* The handler fed any sequence of events with tag names among names.
NextHandler(names) ==
    \/ \E name \in names : StartElement(name)
    \/ \E name \in names : EndElement(name)
    \/ \E content \in Contents : Characters(content)

\* Events with every tag name.
SpecBuilder == InitBuilder /\ [][NextHandler(EventNames)]_vars

\* Events with the tag names of a table document, and two names of no class.
SampleNames ==
    {"LIGO_LW", "Comment", "Param", "Table", "Column", "Stream", "Document", "table"}

SpecEvents == InitBuilder /\ [][NextHandler(SampleNames)]_vars

----------------------------------------------------------------------------
\* A program that constructs elements on attribute mappings of its own.

\* The attribute names and values the program puts in its mappings, and the
\* classes it constructs.
AttrKeys == {"Type", "Delimiter"}
AttrValues(key) == IF key = "Type" THEN {"Remote", "GPS"} ELSE {";"}
AttrKinds == {"Table", "Stream", "Time"}

\* The AttributesImpl objects the program makes.
Maps == 1..MaxMaps

\* The dictionaries it makes them from.
Dicts ==
    UNION {{d \in [K -> UNION {AttrValues(key) : key \in K}] :
               \A key \in K : d[key] \in AttrValues(key)} : K \in SUBSET AttrKeys}

\* Class(attrs) with attrs the object o; Class() when o is the default object
\* of the class.  The constructor works on o's dictionary; the element it
\* returns refers to o.
Construct(k, o) ==
    LET r == construct(k, attrs[o])
    IN  /\ r.raised = NoError => FreeSlots # {}
        /\ attrs' = [attrs EXCEPT ![o] = r.attrs]
        /\ IF r.raised = NoError
           THEN /\ tagName' = [tagName EXCEPT ![NewNode] = k]
                /\ attributes' = [attributes EXCEPT ![NewNode] = o]
           ELSE UNCHANGED <<tagName, attributes>>
        /\ last' = [op |-> "__init__", raised |-> r.raised, tag |-> "",
                    returned |-> IF r.raised = NoError THEN NewNode ELSE None]
        /\ UNCHANGED <<parentNode, childNodes, pcdata, document, current, open,
                       wellNested, file, parsed>>

SetAttribute(self, attrname, value) ==
    LET r == setAttribute(attrs[attributes[self]], attrname, value)
    IN  /\ tagName[self] # NotConstructed
        /\ attrs' = [attrs EXCEPT ![attributes[self]] = r.attrs]
        /\ last' = [op |-> "setAttribute", raised |-> r.raised, tag |-> "",
                    returned |-> None]
        /\ UNCHANGED <<tagName, attributes, parentNode, childNodes, pcdata,
                       document, current, open, wellNested, file, parsed>>

\* No element constructed yet; the program has made its mappings.
InitAttrs ==
    /\ tagName = [n \in Nodes |-> NotConstructed]
    /\ parentNode = [n \in Nodes |-> None]
    /\ childNodes = [n \in Nodes |-> <<>>]
    /\ pcdata = [n \in Nodes |-> <<>>]
    /\ document = None
    /\ current = None
    /\ last = NoCall
    /\ open = <<>>
    /\ wellNested = TRUE
    /\ attributes = [n \in Nodes |-> None]
    /\ attrs \in {[o \in DefaultAttrs \cup Maps |->
                      IF o \in Maps THEN ds[o] ELSE EmptyMap] : ds \in [Maps -> Dicts]}
    /\ file = NoFile
    /\ parsed = 0

NextAttrs ==
    \/ \E k \in AttrKinds : \E o \in Maps \cup {DefaultOf(k)} : Construct(k, o)
    \/ \E self \in Nodes : \E attrname \in AttrKeys :
          \E value \in AttrValues(attrname) : SetAttribute(self, attrname, value)

\* Constructor and setAttribute calls.
SpecAttrs == InitAttrs /\ [][NextAttrs]_vars

----------------------------------------------------------------------------
\* write.  The text printed is a list of lines; a line is a list of pieces,
\* each a character or a tag taken whole with its attribute dictionary.

Chr(c) == [piece |-> "char", name |-> c, attrs |-> EmptyMap]
STag(name, d) == [piece |-> "STag", name |-> name, attrs |-> d]
ETag(name) == [piece |-> "ETag", name |-> name, attrs |-> EmptyMap]
EmptyElemTag(name, d) == [piece |-> "EmptyElemTag", name |-> name, attrs |-> d]

\* A string of characters as pieces.
Chars(str) == [i \in 1..Len(str) |-> Chr(str[i])]

\* Header: the XML declaration and the document type declaration, two lines.
Header ==
    << <<[piece |-> "XMLDecl", name |-> "xml", attrs |-> EmptyMap]>>,
       <<[piece |-> "doctypedecl", name |-> "LIGO_LW", attrs |-> EmptyMap]>> >>

Indent == <<Chr("\t")>>

\* Element.start_tag: indent + "<" + tagName + the attribute items + ">".
Element_start_tag(self, indent) ==
    indent \o <<STag(tagName[self], attrs[attributes[self]])>>

\* Column.start_tag: the same, closed by "/>".
Column_start_tag(self, indent) ==
    indent \o <<EmptyElemTag(tagName[self], attrs[attributes[self]])>>

start_tag(self, indent) ==
    IF tagName[self] = "Column" THEN Column_start_tag(self, indent)
    ELSE Element_start_tag(self, indent)

\* Element.end_tag: indent + "</" + tagName + ">"; Column.end_tag: "".
Element_end_tag(self, indent) == indent \o <<ETag(tagName[self])>>

Column_end_tag(self, indent) == <<>>

end_tag(self, indent) ==
    IF tagName[self] = "Column" THEN Column_end_tag(self, indent)
    ELSE Element_end_tag(self, indent)

\* What a write call has printed when it returns or raises.
Printed(lines, raised) == [out |-> lines, raised |-> raised]

RECURSIVE write(_, _)
RECURSIVE writeChildNodes(_, _, _)

\* The loop "for c in self.childNodes" of Element.write and Document.write
\* from child i on, indent being what c.write is called with.
writeChildNodes(self, i, indent) ==
    IF i > Len(childNodes[self]) THEN Printed(<<>>, NoError)
    ELSE IF tagName[childNodes[self][i]] \notin validchildren(tagName[self])
    THEN Printed(<<>>, "ElementError")
    ELSE LET w == write(childNodes[self][i], indent)
             rest == writeChildNodes(self, i + 1, indent)
         IN  IF w.raised # NoError THEN w
             ELSE Printed(w.out \o rest.out, rest.raised)

\* Element.write that writes the children at its own indentation.
Element_write_SameIndent(self, indent) ==
    LET kids == writeChildNodes(self, 1, indent)
        head == <<start_tag(self, indent)>> \o kids.out
    IN  IF kids.raised # NoError THEN Printed(head, kids.raised)
        ELSE Printed(head
                     \o (IF Truthy(pcdata[self]) THEN <<Chars(pcdata[self][1])>>
                         ELSE <<>>)
                     \o <<end_tag(self, indent)>>, NoError)

\* Element.write(file, indent).
Element_write(self, indent) ==
    LET kids == writeChildNodes(self, 1, indent \o Indent)
        head == <<start_tag(self, indent)>> \o kids.out
    IN  IF kids.raised # NoError THEN Printed(head, kids.raised)
        ELSE Printed(head
                     \o (IF Truthy(pcdata[self]) THEN <<Chars(pcdata[self][1])>>
                         ELSE <<>>)
                     \o <<end_tag(self, indent)>>, NoError)

\* Comment.write(file, indent): one line, the children not looked at.
Comment_write(self, indent) ==
    Printed(<<start_tag(self, indent)
              \o (IF Truthy(pcdata[self]) THEN Chars(pcdata[self][1]) ELSE <<>>)
              \o end_tag(self, <<>>)>>, NoError)

\* Column.write(file, indent): the start tag only.
Column_write(self, indent) == Printed(<<start_tag(self, indent)>>, NoError)

\* Document.write(file).
Document_write(self) ==
    LET kids == writeChildNodes(self, 1, <<>>)
    IN  Printed(Header \o kids.out, kids.raised)

\* c.write(file, indent) by the class of c; Document.write takes no indent.
write(self, indent) ==
    CASE tagName[self] = "Comment" -> Comment_write(self, indent)
      [] tagName[self] = "Column" -> Column_write(self, indent)
      [] tagName[self] = "Document" -> Printed(<<>>, "TypeError")
      [] OTHER -> Element_write(self, indent)

\* A program's call self.write(file).
written(self) ==
    IF tagName[self] = "Document" THEN Document_write(self)
    ELSE write(self, <<>>)

----------------------------------------------------------------------------
\* The parser make_parser returns, reading a file write printed: the events
\* it delivers to the handler.  Every line ends in a newline; the characters
\* between two tags come in one characters event (the handler concatenates
\* what it gets, so a split into several changes nothing); characters outside
\* the top-level element are no event.

Event(event, name, d, content) ==
    [event |-> event, name |-> name, attrs |-> d, content |-> content]

\* The pieces of the lines from line i on, line ends included.
RECURSIVE Pieces(_, _)
Pieces(lines, i) ==
    IF i > Len(lines) THEN <<>>
    ELSE lines[i] \o <<Chr("\n")>> \o Pieces(lines, i + 1)

\* The number of characters from piece i of ps up to the next tag.
RECURSIVE RunLength(_, _)
RunLength(ps, i) ==
    IF i > Len(ps) \/ ps[i].piece # "char" THEN 0
    ELSE 1 + RunLength(ps, i + 1)

\* The events of the pieces ps from piece i on, depth elements being open.
RECURSIVE EventsFrom(_, _, _)
EventsFrom(ps, i, depth) ==
    IF i > Len(ps) THEN <<>>
    ELSE CASE ps[i].piece = "STag" ->
                <<Event("startElement", ps[i].name, ps[i].attrs, <<>>)>>
                \o EventsFrom(ps, i + 1, depth + 1)
           [] ps[i].piece = "ETag" ->
                <<Event("endElement", ps[i].name, EmptyMap, <<>>)>>
                \o EventsFrom(ps, i + 1, depth - 1)
           [] ps[i].piece = "EmptyElemTag" ->
                <<Event("startElement", ps[i].name, ps[i].attrs, <<>>),
                  Event("endElement", ps[i].name, EmptyMap, <<>>)>>
                \o EventsFrom(ps, i + 1, depth)
           [] ps[i].piece = "char" ->
                (IF depth > 0
                 THEN <<Event("characters", "", EmptyMap,
                              [j \in 1..RunLength(ps, i) |-> ps[i + j - 1].name])>>
                 ELSE <<>>)
                \o EventsFrom(ps, i + RunLength(ps, i), depth)
           [] OTHER -> EventsFrom(ps, i + 1, depth)

Events(lines) == EventsFrom(Pieces(lines, 1), 1, 0)

----------------------------------------------------------------------------
\* A program that builds a document, writes it to a file and parses the file
\* into a second Document.

\* The elements of the program: those of the document it builds and as many
\* for the parser to construct.
Pool == 1..(2 * MaxTree)
Built == 1..MaxTree

\* The classes of the elements it builds under the Document.
WriteKinds == {"LIGO_LW", "Comment", "Table", "Column", "Stream"}

\* The Document and the other elements constructed without argument, none
\* attached; nothing written, no handler.
InitWrite ==
    /\ \E cast \in [Built \ {1} -> WriteKinds] :
          /\ \A i, j \in Built \ {1} :
                i < j => KindIndex(cast[i]) <= KindIndex(cast[j])
          /\ tagName = [n \in Pool |-> IF n = 1 THEN "Document"
                                       ELSE IF n \in Built THEN cast[n]
                                       ELSE NotConstructed]
    /\ parentNode = [n \in Pool |-> None]
    /\ childNodes = [n \in Pool |-> <<>>]
    /\ pcdata = [n \in Pool |-> <<>>]
    /\ document = None
    /\ current = None
    /\ last = NoCall
    /\ open = <<>>
    /\ wellNested = TRUE
    /\ attributes = [n \in Pool |-> IF n \in Built THEN DefaultOf(tagName[n])
                                    ELSE None]
    /\ attrs = [o \in DefaultAttrs \cup Pool |->
                   IF o \in DefaultAttrs THEN DefaultsAfter(tagName)[o]
                   ELSE EmptyMap]
    /\ file = NoFile
    /\ parsed = 0

\* The program appends an element that is in no tree position yet where the
\* grammar permits it: a permitted child, in an order the parent's class
\* allows, and one top-level element only.
Grows(self, child) ==
    /\ parentNode[child] = None
    /\ ~IsAncestorOrSelf(child, self, MaxTree)
    /\ tagName[child] \in validchildren(tagName[self])
    /\ OrderValid(tagName[self], KindsOf(Append(childNodes[self], child)))
    /\ tagName[self] = "Document" => childNodes[self] = <<>>

\* A call self.appendData(content) on a Comment or a Stream that has no text
\* yet.
AppendData(self, content) ==
    /\ file = NoFile
    /\ tagName[self] \in {"Comment", "Stream"}
    /\ pcdata[self] = <<>>
    /\ pcdata' = [pcdata EXCEPT ![self] = appendData(@, content)]
    /\ DataKept(pcdata', Pool) <= MaxData
    /\ last' = [op |-> "appendData", raised |-> NoError, tag |-> "",
                returned |-> None]
    /\ UNCHANGED <<tagName, parentNode, childNodes, document, current, open,
                   wellNested, attributes, attrs, file, parsed>>

\* doc.write(file) on the Document.
Write ==
    /\ file = NoFile
    /\ file' = written(1).out
    /\ last' = [op |-> "write", raised |-> written(1).raised, tag |-> "",
                returned |-> None]
    /\ UNCHANGED <<tagName, parentNode, childNodes, pcdata, document, current,
                   open, wellNested, attributes, attrs, parsed>>

\* doc = Document(); handler = LIGOLWContentHandler(doc), once the file is
\* written.
MakeHandler ==
    /\ file # NoFile
    /\ last.raised = NoError
    /\ document = None
    /\ tagName' = [tagName EXCEPT ![NewNode] = "Document"]
    /\ attributes' = [attributes EXCEPT ![NewNode] = ElementAttrs]
    /\ document' = NewNode
    /\ current' = NewNode
    /\ last' = [op |-> "LIGOLWContentHandler", raised |-> NoError, tag |-> "",
                returned |-> None]
    /\ UNCHANGED <<parentNode, childNodes, pcdata, open, wellNested, attrs,
                   file, parsed>>

\* The parser delivers the next event of the file; an exception ends the
\* parse.
Parse ==
    /\ document # None
    /\ last.raised = NoError
    /\ parsed < Len(Events(file))
    /\ LET e == Events(file)[parsed + 1]
       IN  CASE e.event = "startElement" ->
                  Handled("startElement", startElement(e.name, e.attrs))
             [] e.event = "endElement" ->
                  Handled("endElement", endElement(e.name))
             [] OTHER -> Handled("characters", characters(e.content))
    /\ parsed' = parsed + 1
    /\ UNCHANGED <<open, wellNested>>

NextWrite ==
    \/ \E self, child \in Built :
          file = NoFile /\ Grows(self, child) /\ AppendChild(self, child)
    \/ \E self \in Built : \E content \in Contents : AppendData(self, content)
    \/ Write
    \/ MakeHandler
    \/ Parse

\* Build, write, parse.
SpecWrite == InitWrite /\ [][NextWrite]_vars

----------------------------------------------------------------------------
\* A program that fills and empties one Table or Array.

\* The classes with a _verifyChildren of their own.
OrderedParents == {"Table", "Array"}

\* The classes those checks tell apart.
OrderedChildren == {"Comment", "Column", "Dim", "Stream"}

\* Element 1 is the Table or Array, the others are constructed in KindSeq
\* order, none attached.
InitOrdered ==
    /\ tagName \in {f \in [Built -> OrderedParents \cup OrderedChildren] :
                       /\ f[1] \in OrderedParents
                       /\ \A i \in Built \ {1} : f[i] \in OrderedChildren
                       /\ \A i, j \in Built \ {1} :
                             i < j => KindIndex(f[i]) <= KindIndex(f[j])}
    /\ parentNode = [n \in Built |-> None]
    /\ childNodes = [n \in Built |-> <<>>]
    /\ pcdata = [n \in Built |-> <<>>]
    /\ document = None
    /\ current = None
    /\ last = NoCall
    /\ open = <<>>
    /\ wellNested = TRUE
    /\ attributes = [n \in Built |-> DefaultOf(tagName[n])]
    /\ attrs = DefaultsAfter(tagName)
    /\ file = NoFile
    /\ parsed = 0

\* The program appends and inserts elements that have no parent, and removes.
NextOrdered ==
    \/ \E child \in Built \ {1} :
          parentNode[child] = None /\ AppendChild(1, child)
    \/ \E newchild, refchild \in Built \ {1} :
          parentNode[newchild] = None /\ InsertBefore(1, newchild, refchild)
    \/ \E child \in Built \ {1} : RemoveChild(1, child)

SpecOrdered == InitOrdered /\ [][NextOrdered]_vars

----------------------------------------------------------------------------
\* C1: appendChild(parent, child) with a child whose tag name is not in
\* parent's validchildren raises ElementError, and parent's child list and
\* child's parent link are after the call what they were before it.
C1_DisallowedChildRejected ==
    [][\A self, child \in Nodes :
          (AppendChild(self, child) /\ tagName[child] \notin validchildren(tagName[self]))
          => /\ last'.raised = "ElementError"
             /\ childNodes'[self] = childNodes[self]
             /\ parentNode'[child] = parentNode[child]]_vars

\* C2: whatever appendChild, insertBefore, removeChild and replaceChild calls
\* were made, succeeding or failing, the child list of every Table is ordered:
\* one Comment at most and first, Columns before the Stream, one Stream at most
\* and last (stated of the Tables that hold Comments, Columns and Streams only).
C2_TableAlwaysOrdered ==
    \A n \in Nodes :
        (tagName[n] = "Table" /\ Permitted("Table", KindsOf(childNodes[n])))
        => TableOrdered(KindsOf(childNodes[n]))

\* C3: appending to an ordered Table a Comment, Column or Stream that breaks
\* the order raises ElementError, leaves the Table's child list as it was and
\* leaves the rejected child without a parent.
C3_OrderViolationRolledBack ==
    [][\A self, child \in Nodes :
          ( /\ AppendChild(self, child)
            /\ tagName[self] = "Table"
            /\ tagName[child] \in {"Comment", "Column", "Stream"}
            /\ Permitted("Table", KindsOf(childNodes[self]))
            /\ TableOrdered(KindsOf(childNodes[self]))
            /\ ~TableOrdered(KindsOf(Append(childNodes[self], child))) )
          => /\ last'.raised = "ElementError"
             /\ childNodes'[self] = childNodes[self]
             /\ parentNode'[child] = None]_vars

\* C4: appending a Dim or a Stream to an Array returns normally when the
\* resulting list is ordered, and otherwise raises ElementError and leaves the
\* Array's child list as it was.
C4_ArrayAppend ==
    [][\A self, child \in Nodes :
          ( /\ AppendChild(self, child)
            /\ tagName[self] = "Array"
            /\ tagName[child] \in {"Dim", "Stream"} )
          => IF ArrayOrdered(KindsOf(Append(childNodes[self], child)))
             THEN last'.raised = NoError
             ELSE /\ last'.raised = "ElementError"
                  /\ childNodes'[self] = childNodes[self]]_vars

\* C5: insertBefore(parent, newchild, refchild) with refchild among parent's
\* children either returns normally with newchild at refchild's old position,
\* or raises and leaves parent's child list as it was and newchild's parent
\* link not pointing at parent.
C5_InsertRolledBack ==
    [][\A self, newchild, refchild \in Nodes :
          ( /\ InsertBefore(self, newchild, refchild)
            /\ IsChild(self, refchild)
            /\ Permitted(tagName[self], KindsOf(Append(childNodes[self], newchild))) )
          => IF last'.raised = NoError
             THEN /\ childNodes'[self] =
                        InsertAt(childNodes[self],
                                 IndexOf(childNodes[self], refchild), newchild)
                  /\ parentNode'[newchild] = self
             ELSE /\ childNodes'[self] = childNodes[self]
                  /\ parentNode'[newchild] # self]_vars

\* C6: insertBefore with a refchild that is not a child of parent, and
\* removeChild with a child that is not a child of parent, raise ValueError
\* and leave every child list and every parent link as it was (of every call
\* that can be made in a reachable tree).
C6_AbsentReferenceRejected ==
    /\ \A self, newchild, refchild \in Nodes :
          ~IsChild(self, refchild)
          => LET r == insertBefore(tagName, childNodes, parentNode, self, newchild,
                                    refchild)
             IN  /\ r.raised = "ValueError"
                 /\ r.childNodes = childNodes
                 /\ r.parentNode = parentNode
    /\ \A self, child \in Nodes :
          ~IsChild(self, child)
          => LET r == removeChild(childNodes, parentNode, self, child)
             IN  /\ r.raised = "ValueError"
                 /\ r.childNodes = childNodes
                 /\ r.parentNode = parentNode

\* C6's case: an insertBefore on a parent that has children was refused with
\* ValueError.
C6_Witness ==
    /\ last.op = "insertBefore"
    /\ last.raised = "ValueError"
    /\ \E n \in Nodes : childNodes[n] # <<>>

\* C7: replaceChild(parent, newchild, oldchild) with oldchild among parent's
\* children and an ordered result returns newchild, puts it at oldchild's
\* position, keeps the other children in place, clears oldchild's parent link
\* and sets newchild's; with oldchild absent it raises ValueError and changes
\* nothing.
C7_ReplaceChild ==
    [][\A self, newchild, oldchild \in Nodes :
          ReplaceChild(self, newchild, oldchild)
          => LET i == IndexOf(childNodes[self], oldchild)
                 swapped == [childNodes[self] EXCEPT ![i] = newchild]
             IN  IF i = 0
                 THEN /\ last'.raised = "ValueError"
                      /\ UNCHANGED <<childNodes, parentNode>>
                 ELSE OrderValid(tagName[self], KindsOf(swapped))
                      => /\ last'.raised = NoError
                         /\ last'.returned = newchild
                         /\ childNodes'[self] = swapped
                         /\ parentNode'[oldchild] = None
                         /\ parentNode'[newchild] = self]_vars

\* C8: in a parent of any kind whose child list is permitted and ordered, removing a child
\* that is not the last and inserting it again before the sibling that
\* followed it makes both calls return normally and gives back the child lists
\* and parent links there were.
C8_RemoveThenInsertRestores ==
    \A self \in Nodes :
        \A i \in 1..(Len(childNodes[self]) - 1) :
            ( /\ Permitted(tagName[self], KindsOf(childNodes[self]))
              /\ OrderValid(tagName[self], KindsOf(childNodes[self])) )
            => LET c == childNodes[self][i]
                   s == childNodes[self][i + 1]
                   r1 == removeChild(childNodes, parentNode, self, c)
                   r2 == insertBefore(tagName, r1.childNodes, r1.parentNode, self, c, s)
               IN  /\ r1.raised = NoError
                   /\ r2.raised = NoError
                   /\ r2.childNodes = childNodes
                   /\ r2.parentNode = parentNode

\* The thirteen element kinds an event may name.
ElementKinds ==
    { "AdcData", "AdcInterval", "Array", "Column", "Comment", "Detector", "Dim",
      "IGWDFrame", "LIGO_LW", "Param", "Stream", "Table", "Time" }

\* C9: while the events are well nested, name these thirteen kinds and follow
\* the permitted children and the ordering rules, the handler raises nothing,
\* an end event leaves the cursor on the parent of the node it closed, and the
\* end event that closes the top-level element leaves it on the Document.
C9_WellNestedEventsAccepted ==
    [][wellNested'
       => /\ last'.raised = NoError
          /\ last'.op = "endElement"
             => /\ current # None
                /\ current' = parentNode[current]
                /\ Len(open') = 1 => current' = document]_vars

\* C10: a start or end event whose tag name is none of the thirteen kinds
\* (Document, a name in another letter case) raises ElementError, and leaves
\* the tree, the text and the cursor as they were (of every such event in
\* every state the handler reaches).
C10_UnknownTagRejected ==
    \A name \in EventNames \ ElementKinds :
        /\ startElement(name, EmptyMap) = Refused("ElementError", name)
        /\ endElement(name) = Refused("ElementError", name)

\* C10's case: inside an open element, a start event named Document was
\* refused as an unknown tag.
C10_Witness ==
    /\ last.op = "startElement"
    /\ last.raised = "ElementError"
    /\ last.tag = "Document"
    /\ current \notin {None, document}

\* C11: an end event whose tag name is one of the thirteen kinds but is not
\* the tag name of the element under the cursor raises an exception and leaves
\* the cursor where it is (of every such event in every state the handler
\* reaches with the cursor on an element).
C11_MismatchedEndRejected ==
    \A name \in ElementKinds :
        ( /\ current # None
          /\ tagName[current] \in ElementKinds
          /\ tagName[current] # name )
        => /\ endElement(name).raised # NoError
           /\ endElement(name).current = current

\* The string a pcdata value holds: the empty one for None.
Text(pc) == IF pc = <<>> THEN <<>> ELSE pc[1]

\* C12: a characters event with the cursor on a Comment or a Stream appends
\* content to that element's text and changes nothing else; with the cursor on
\* an element of another kind it changes nothing at all; start and end events
\* change no text and an element not constructed yet has none: the text of an
\* element is the concatenation, in arrival order, of the characters events
\* received with the cursor on it.
C12_CharactersAppended ==
    /\ \A content \in Contents \cup {<<>>} :
          current # None
          => LET r == characters(content)
             IN  IF tagName[current] \in {"Comment", "Stream"}
                 THEN /\ r.raised = NoError
                      /\ Text(r.pcdata[current]) = Text(pcdata[current]) \o content
                      /\ \A n \in Nodes \ {current} : r.pcdata[n] = pcdata[n]
                      /\ r.tagName = tagName
                      /\ r.childNodes = childNodes
                      /\ r.parentNode = parentNode
                      /\ r.current = current
                 ELSE r = Refused(NoError, "")
    /\ \A name \in SampleNames :
          /\ endElement(name).pcdata = pcdata
          /\ (name \in StartElementTags /\ current # None => FreeSlots # {})
             => startElement(name, EmptyMap).pcdata = pcdata
    /\ \A n \in FreeSlots : pcdata[n] = <<>>

\* C12's case: two characters events reached a Stream under the cursor, which
\* holds the two strings in the order they came.
C12_Witness ==
    /\ last.op = "characters"
    /\ current # None
    /\ tagName[current] = "Stream"
    /\ Text(pcdata[current]) = <<"h", "i">>

\* Element.getElements with a filter that accepts every element, as a set: n
\* and the elements below it in the child lists cn, to depth fuel.
RECURSIVE getElements(_, _, _)
getElements(cn, n, fuel) ==
    {n} \cup IF fuel = 0 THEN {}
             ELSE UNION {getElements(cn, cn[n][i], fuel - 1) : i \in 1..Len(cn[n])}

\* C13: the event that follows an event that raised an exception adds no
\* element to the tree under the Document (the first of the later events the
\* claim speaks of).
C13_NoNodeAfterFailure ==
    [][(document # None /\ last.raised # NoError)
       => getElements(childNodes', document, MaxNodes)
             \subseteq getElements(childNodes, document, MaxNodes)]_vars

\* The dictionary d with value under key when d has no such key.
WithDefault(d, key, value) ==
    [k \in DOMAIN d \cup {key} |-> IF k \in DOMAIN d THEN d[k] ELSE value]

\* C14: the Stream constructor raises ElementError on a mapping whose Type is
\* neither Local nor Remote; on any other mapping with permitted keys it
\* returns a Stream whose attributes are the mapping's, with Type = Local and
\* Delimiter = "," for the keys the mapping lacked.  The Time constructor
\* likewise with GPS, Unix and ISO-8601, and Type = ISO-8601 when lacking (of
\* every mapping a program holds in any state).
C14_DefaultsFilled ==
    \A o \in DOMAIN attrs :
        LET d == attrs[o]
            s == construct("Stream", d)
            t == construct("Time", d)
        IN  /\ IF "Type" \in DOMAIN d /\ d["Type"] \notin {"Local", "Remote"}
               THEN s.raised = "ElementError"
               ELSE DOMAIN d \subseteq validattributes("Stream")
                    => /\ s.raised = NoError
                       /\ s.attrs = WithDefault(WithDefault(d, "Type", "Local"),
                                                "Delimiter", ",")
            /\ IF "Type" \in DOMAIN d /\ d["Type"] \notin {"GPS", "Unix", "ISO-8601"}
               THEN t.raised = "ElementError"
               ELSE DOMAIN d \subseteq validattributes("Time")
                    => /\ t.raised = NoError
                       /\ t.attrs = WithDefault(d, "Type", "ISO-8601")

\* C14's case: the last call constructed a Stream on a mapping of the program
\* that had no Type and no Delimiter (the program puts neither "Local" nor ","
\* in a mapping), and the Stream has both.
C14_Witness ==
    /\ last.op = "__init__"
    /\ last.returned # None
    /\ tagName[last.returned] = "Stream"
    /\ attributes[last.returned] \in Maps
    /\ attrs[attributes[last.returned]]["Type"] = "Local"
    /\ attrs[attributes[last.returned]]["Delimiter"] = ","

\* C15: every attribute name an element holds is in the validattributes of its
\* class.
C15_AttributeKeysPermitted ==
    \A n \in Nodes :
        tagName[n] # NotConstructed
        => DOMAIN attrs[attributes[n]] \subseteq validattributes(tagName[n])

\* Some element at or below n has a child its class does not permit.
HasDisallowedChild(n) ==
    \E p \in getElements(childNodes, n, MaxNodes) :
        ~Permitted(tagName[p], KindsOf(childNodes[p]))

\* C16: writing a tree raises ElementError exactly when some element of the
\* tree, of any class, has a child its class does not permit.
C16_DisallowedChildFailsWrite ==
    \A n \in Nodes :
        HasDisallowedChild(n) <=> written(n).raised = "ElementError"

\* The tree under the Document d has one top-level element at most, every
\* child is one its parent's class permits, and the children of every element
\* are in an order its class allows.
GrammarValid(d) ==
    /\ Len(childNodes[d]) <= 1
    /\ \A p \in getElements(childNodes, d, 2 * MaxTree) :
          /\ Permitted(tagName[p], KindsOf(childNodes[p]))
          /\ OrderValid(tagName[p], KindsOf(childNodes[p]))

\* What the text must show of one element at a depth: the tags, with the
\* number of Indent units before a start tag, and the characters.
Shown(what, name, d, depth) ==
    [what |-> what, name |-> name, attrs |-> d, depth |-> depth]

\* The rendering the grammar's text format asks for, of the children of n
\* from child i on and of an element n, at a depth.
RECURSIVE Rendering(_, _)
RECURSIVE RenderingOfChildren(_, _, _)
RenderingOfChildren(n, i, depth) ==
    IF i > Len(childNodes[n]) THEN <<>>
    ELSE Rendering(childNodes[n][i], depth)
         \o RenderingOfChildren(n, i + 1, depth)

Rendering(n, depth) ==
    IF tagName[n] = "Column"
    THEN <<Shown("self-closing", "Column", attrs[attributes[n]], depth)>>
    ELSE <<Shown("start", tagName[n], attrs[attributes[n]], depth)>>
         \o RenderingOfChildren(n, 1, depth + 1)
         \o [i \in 1..Len(Text(pcdata[n])) |->
                Shown("character", Text(pcdata[n])[i], EmptyMap, 0)]
         \o <<Shown("end", tagName[n], EmptyMap, 0)>>

\* A line has a tag among its pieces.
HasTag(line) == \E i \in 1..Len(line) : line[i].piece # "char"

\* The number of Indent units a line begins with.
RECURSIVE Indents(_)
Indents(line) ==
    IF Len(line) >= Len(Indent) /\ SubSeq(line, 1, Len(Indent)) = Indent
    THEN 1 + Indents(SubSeq(line, Len(Indent) + 1, Len(line)))
    ELSE 0

\* What a line shows: the line of a tag after its indentation, a line of
\* text whole.
ShownByLine(line) ==
    LET depth == IF HasTag(line) THEN Indents(line) ELSE 0
        rest == SubSeq(line, depth * Len(Indent) + 1, Len(line))
    IN  [i \in 1..Len(rest) |->
            CASE rest[i].piece = "STag" ->
                   Shown("start", rest[i].name, rest[i].attrs, depth)
              [] rest[i].piece = "EmptyElemTag" ->
                   Shown("self-closing", rest[i].name, rest[i].attrs, depth)
              [] rest[i].piece = "ETag" -> Shown("end", rest[i].name, EmptyMap, 0)
              [] OTHER -> Shown("character", rest[i].name, EmptyMap, 0)]

\* What the lines from line i on show.
RECURSIVE ShownBy(_, _)
ShownBy(lines, i) ==
    IF i > Len(lines) THEN <<>>
    ELSE ShownByLine(lines[i]) \o ShownBy(lines, i + 1)

\* C17: write on a Document whose tree follows the grammar raises nothing and
\* prints the two header lines and then, for the top-level element at depth 0
\* and every element one deeper than its parent, in pre-order: a start tag
\* after depth Indent units, the children's text, the element's characters if
\* it has any, an end tag; for a Column one self-closing tag after depth
\* Indent units and nothing else; no tag for the Document.
C17_WriteIsPreOrder ==
    \A d \in DOMAIN tagName :
        (tagName[d] = "Document" /\ GrammarValid(d))
        => /\ written(d).raised = NoError
           /\ Len(written(d).out) >= Len(Header)
           /\ SubSeq(written(d).out, 1, Len(Header)) = Header
           /\ ShownBy(written(d).out, Len(Header) + 1)
                 = RenderingOfChildren(d, 1, 0)

\* C17's case: the file written holds a Column two levels below the top-level
\* element's parent, after two Indent units.
C17_Witness ==
    /\ file # NoFile
    /\ last.op = "write"
    /\ \E i \in 1..Len(file) :
          file[i] = Indent \o Indent \o <<EmptyElemTag("Column", EmptyMap)>>

\* The trees under a and b are the same: tag names, attribute dictionaries,
\* text and children in order.
RECURSIVE SameTree(_, _)
SameTree(a, b) ==
    /\ tagName[a] = tagName[b]
    /\ attrs[attributes[a]] = attrs[attributes[b]]
    /\ Text(pcdata[a]) = Text(pcdata[b])
    /\ Len(childNodes[a]) = Len(childNodes[b])
    /\ \A i \in 1..Len(childNodes[a]) :
          i <= Len(childNodes[b]) => SameTree(childNodes[a][i], childNodes[b][i])

\* C18: when the parser has delivered every event of the file written from a
\* document built by permitted, order-respecting appends, with text of
\* letters only, no event has raised and the Document the handler built has
\* the same tree as the document written.
C18_RoundTrip ==
    (document # None /\ (parsed = Len(Events(file)) \/ last.raised # NoError))
    => /\ last.raised = NoError
       /\ SameTree(1, document)

\* C19: the children of the handler's Document are LIGO_LW elements only, and
\* one at most.
C19_OneTopLevelElement ==
    document # None
    => KindsOf(childNodes[document]) \in {<<>>, <<"LIGO_LW">>}

\* C20: the elements form a strict forest with consistent parent links: no
\* element occurs twice in the child lists, none is below itself, the parent
\* link of every child names the element that lists it, and every element
\* with a parent link is in that parent's child list.
C20_StrictForest ==
    /\ \A p, q \in Nodes :
          \A i \in 1..Len(childNodes[p]) : \A j \in 1..Len(childNodes[q]) :
              childNodes[p][i] = childNodes[q][j] => (p = q /\ i = j)
    /\ \A n \in Nodes :
          \A i \in 1..Len(childNodes[n]) :
              n \notin getElements(childNodes, childNodes[n][i], MaxNodes)
    /\ \A p \in Nodes :
          \A i \in 1..Len(childNodes[p]) : parentNode[childNodes[p][i]] = p
    /\ \A n \in Nodes :
          parentNode[n] # None => IsChild(parentNode[n], n)


\* C21: removing any child of a Table or Array whose children are in the
\* order its kind asks for returns normally, leaves the children in that
\* order, and leaves the other children in the order they were in.
C21_RemovalKeepsOrder ==
    \A self \in DOMAIN tagName :
        ( /\ tagName[self] \in OrderedParents
          /\ OrderValid(tagName[self], KindsOf(childNodes[self])) )
        => \A i \in 1..Len(childNodes[self]) :
              LET c == childNodes[self][i]
                  r == removeChild(childNodes, parentNode, self, c)
                  Other(x) == x # c
              IN  /\ r.raised = NoError
                  /\ OrderValid(tagName[self], KindsOf(r.childNodes[self]))
                  /\ r.childNodes[self] = SelectSeq(childNodes[self], Other)

\* A Column was removed from between the Comment and the Stream of a Table.
C21_Witness ==
    /\ last.op = "removeChild"
    /\ last.raised = NoError
    /\ tagName[1] = "Table"
    /\ tagName[last.returned] = "Column"
    /\ KindsOf(childNodes[1]) = <<"Comment", "Stream">>


\* C22: a constructor call leaves the dictionary of every mapping the program
\* made as it was: a mapping without Type before Stream(m) or Time(m) is
\* without Type after it.
C22_CallerMappingUnchanged ==
    [][last'.op = "__init__" => \A o \in Maps : attrs'[o] = attrs[o]]_vars


\* The elements constructed without an attribute mapping.
WithoutArgument ==
    {n \in Nodes : tagName[n] # NotConstructed /\ attributes[n] \in DefaultAttrs}

\* The attribute dictionary of element n when the mapping objects hold as.
AttributesOf(as, n) == as[attributes[n]]

\* C23: setAttribute on an element constructed without an attribute mapping
\* returns normally and stores the value under the name in that element's
\* attributes, the attributes of every other such element stay as they were,
\* and a constructor called without argument raises nothing.
C23_AttributesPerNode ==
    /\ \A n \in WithoutArgument :
          \A attrname \in AttrKeys : \A value \in AttrValues(attrname) :
              LET r == setAttribute(attrs[attributes[n]], attrname, value)
                  as == [attrs EXCEPT ![attributes[n]] = r.attrs]
              IN  /\ r.raised = NoError
                  /\ AttributesOf(as, n)
                       = SetItem(AttributesOf(attrs, n), attrname, value)
                  /\ \A m \in WithoutArgument \ {n} :
                        AttributesOf(as, m) = AttributesOf(attrs, m)
    /\ \A k \in AttrKinds : construct(k, attrs[DefaultOf(k)]).raised = NoError


\* C24: the handler's cursor is its Document or an element below it, never
\* None.
C24_CursorOnTree ==
    document # None
    => /\ current # None
       /\ current \in {document} \cup getElements(childNodes, document, MaxNodes)

====
